---------------------------- MODULE Spec2Model ----------------------------
(***************************************************************************)
(* Gate.io latency test client (src/src/main.rs).                          *)
(*                                                                         *)
(* Three units of execution share one GateIOAccount:                       *)
(*   - the trading Session            (start_trading_ws),                  *)
(*   - the market-data feed + trigger (start_gateio_orderbook_ws),         *)
(*   - the spawned order task         (tokio::spawn block + create_order). *)
(* main() runs the first two under tokio::select! and returns as soon as   *)
(* either of them returns.                                                 *)
(*                                                                         *)
(* Time is discrete; one unit is one second of the source.  An Instant is  *)
(* represented by its age, the time elapsed since it was taken: Now is 0,  *)
(* the clock's Tick ages every stored Instant by one, and                  *)
(* later.duration_since(earlier) is the difference of the two ages.  A     *)
(* sleep is the time it still has to run.                                  *)
(* A price is an f64; the decimals among them are counted in units of     *)
(* 0.0001.                                                                 *)
(* Console output is modelled by `out` (the last handler's report).        *)
(***************************************************************************)
EXTENDS Integers, Sequences, FiniteSets, TLC

\* ------------------------------------------------------------------ bounds
MaxLatency == 2     \* the program's clock keeps the age of a pending
                    \* request up to this; a greater age is Beyond
ObserveHorizon == 47  \* the same for the clock of ObserveSpec

\* ------------------------------------------------------- program constants
RECONNECT_DELAY == 3
SETTLE_DELAY == 10
PRINT_WINDOW == 5
PRINT_EPS == 10
SO_COIN_DANH == 50
SLICE_LEN == 100
KEY_PREVIEW == 10         \* line 145: the bytes shown of each end of the key
AUTH_PREVIEW == 150       \* line 165: the bytes shown of the login frame
AUTH_KEY_OFFSET == 78     \* where the key starts in the login frame

Absent == "Absent"        \* a JSON field that is not there
NoValue == -1             \* Option::None of a latency or a time
Beyond == -2              \* a duration the clock no longer keeps: an age
                          \* above its horizon, or what is computed from
                          \* one; the model does not say which duration

ReqIds == {"r1", "r2"}    \* request ids an inbound frame may carry
ClockId == "r1"           \* the id create_order takes from the clock (190)

\* ------------------------------------------------------------ HashMap
EmptyMap == [k \in {} |-> 0]

Insert(m, k, v) == [x \in (DOMAIN m) \cup {k} |-> IF x = k THEN v ELSE m[x]]

Remove(m, k) == [x \in (DOMAIN m) \ {k} |-> m[x]]

Get(m, k) == IF k \in DOMAIN m THEN m[k] ELSE NoValue

\* ------------------------------------------------------------ Instant
Now == 0

\* later.duration_since(earlier), zero when `earlier` is the later one
DurationSince(later, earlier) ==
    IF later = Beyond \/ earlier = Beyond THEN Beyond
    ELSE IF earlier >= later THEN earlier - later ELSE 0

\* ------------------------------------------------------------ the API key
(* The key the program is started with (GATEIO_API_KEY, line 562), as far  *)
(* as string slicing sees it: its length in bytes and the byte offsets     *)
(* that lie inside a multi-byte character.  The keys here hold nothing     *)
(* that JSON escapes.                                                      *)
ApiKeys ==
    {[len |-> 64, wide |-> {}],        \* ASCII, as the exchange issues them
     [len |-> 9, wide |-> {}],         \* shorter than the preview
     [len |-> 22, wide |-> {10}],      \* byte 10 inside a character
     [len |-> 80, wide |-> {72}]}      \* byte 150 of the frame inside one

\* str::is_char_boundary
IsCharBoundary(s, index) == index <= s.len /\ index \notin s.wide

(* line 145: &api_key[..10] and &api_key[len-10..] are taken without a     *)
(* check; either panics when the key is shorter than 10 bytes or the       *)
(* offset is not a character boundary.                                     *)
KeyPreviewPanics(key) ==
    \/ key.len < KEY_PREVIEW
    \/ ~IsCharBoundary(key, KEY_PREVIEW)
    \/ ~IsCharBoundary(key, key.len - KEY_PREVIEW)

(* line 165: &auth_json[..150].  The frame is longer than 150 bytes (the   *)
(* signature alone has 128) and ASCII but for the key, which starts at     *)
(* byte AUTH_KEY_OFFSET: {"time":<10 digits>,"channel":"spot.login",       *)
(* "event":"api","payload":{"api_key":"                                    *)
AuthPreviewPanics(key) == (AUTH_PREVIEW - AUTH_KEY_OFFSET) \in key.wide

\* authenticate panics before it sends anything
AuthenticatePanics(key) == KeyPreviewPanics(key) \/ AuthPreviewPanics(key)

\* ------------------------------------------------- inbound text frames
(* A text frame after serde_json::from_str: `json` says whether it parses; *)
(* `header` is the nested header object (`has_header` says whether there   *)
(* is one) and `root` the top-level fields, each a map from field name to  *)
(* string.                                                                 *)
(* `cut` says that the raw text is longer than SLICE_LEN bytes and that    *)
(* byte SLICE_LEN falls inside a multi-byte character.                     *)
Fields(channel, event, status, request_id) ==
    LET all == [channel |-> channel, event |-> event, status |-> status,
                request_id |-> request_id]
        keys == {k \in DOMAIN all : all[k] # Absent}
    IN  [k \in keys |-> all[k]]

HeaderFrame(channel, event, status, request_id) ==
    [json |-> TRUE, has_header |-> TRUE,
     header |-> Fields(channel, event, status, request_id),
     root |-> EmptyMap, cut |-> FALSE]

RootFrame(channel, event, status, request_id) ==
    [json |-> TRUE, has_header |-> FALSE, header |-> EmptyMap,
     root |-> Fields(channel, event, status, request_id), cut |-> FALSE]

Garbled ==
    [json |-> FALSE, has_header |-> FALSE, header |-> EmptyMap,
     root |-> EmptyMap, cut |-> FALSE]

Cut(frame) == [frame EXCEPT !.cut = TRUE]

TradingFrames ==
    {HeaderFrame("spot.login", "api", s, Absent) : s \in {"200", "401"}}
    \cup {RootFrame("spot.login", "api", "200", Absent),
          RootFrame("spot.login", "update", "200", Absent),
          RootFrame("spot.ping", Absent, Absent, Absent),
          RootFrame("spot.pong", Absent, Absent, Absent),
          RootFrame("spot.tickers", "update", Absent, Absent),
          Garbled}
    \cup {HeaderFrame("spot.order_place", "api", s, "r1") :
             s \in {"201", "400", "100"}}
    \cup {HeaderFrame("spot.order_place", "api", "100", "r2"),
          HeaderFrame("spot.order_place", "api", "201", ""),
          RootFrame("spot.order_place", "api", Absent, "r1"),
          HeaderFrame("spot.order_place", "update", "201", "r1")}
    \cup {Cut(HeaderFrame("spot.order_place", "api", "400", "r1")),
          Cut(HeaderFrame("spot.login", "api", "200", Absent))}

\* header.get(key).or_else(root.get(key)).and_then(as_str).unwrap_or(default)
Field(response, key, default) ==
    IF response.has_header /\ key \in DOMAIN response.header
    THEN response.header[key]
    ELSE IF key \in DOMAIN response.root THEN response.root[key]
    ELSE default

\* ------------------------------------------- GateIOAccount::handle_message
Quiet == [tag |-> "none"]

(* The account's shared cells, as handle_message sees and leaves them.     *)
Account(a, s, c, t) ==
    [authenticated |-> a, sent_time_map |-> s, response_count |-> c,
     response_times |-> t]

\* (mutant) the delta taken the wrong way round
SummaryReversed(times, response_num) ==
    [response_1 |-> Get(times, 1),
     response_2 |-> Get(times, 2),
     diff |-> IF response_num >= 2 /\ 1 \in DOMAIN times /\ 2 \in DOMAIN times
              THEN IF times[1] = Beyond \/ times[2] = Beyond THEN Beyond
                   ELSE times[1] - times[2]
              ELSE NoValue,
     total |-> response_num]

\* lines 353-379: the latency summary printed before the entry is removed
Summary(times, response_num) ==
    [response_1 |-> Get(times, 1),
     response_2 |-> Get(times, 2),
     diff |-> IF response_num >= 2 /\ 1 \in DOMAIN times /\ 2 \in DOMAIN times
              THEN IF times[1] = Beyond \/ times[2] = Beyond THEN Beyond
                   ELSE times[2] - times[1]
              ELSE NoValue,
     total |-> response_num]

\* (mutant) a rejection does not end the tracking
TerminalWithoutRejection(response_num, status) ==
    response_num >= 2 \/ status = "201"

\* (mutant) only the second response ends the tracking
TerminalAtSecondOnly(response_num, status) ==
    response_num >= 2

\* line 353: the retirement condition
Terminal(response_num, status) ==
    response_num >= 2 \/ status = "201" \/ status = "400"

\* (mutant) a response for an id that is not pending opens an entry for it
OrderResponseAdopts(acct, response, received_time) ==
    LET req_id == Field(response, "request_id", "") IN
    IF req_id = ""
    THEN [acct |-> acct, result |-> "Ok",
          out |-> [tag |-> "order_untracked"]]
    ELSE IF req_id \notin DOMAIN acct.sent_time_map
    THEN [acct |-> Account(acct.authenticated,
                           Insert(acct.sent_time_map, req_id, received_time),
                           Insert(acct.response_count, req_id, 1),
                           acct.response_times),
          result |-> "Ok", out |-> [tag |-> "order_untracked"]]
    ELSE
    LET sent_time == acct.sent_time_map[req_id]
        latency == DurationSince(received_time, sent_time)
        response_num ==
            (IF req_id \in DOMAIN acct.response_count
             THEN acct.response_count[req_id] ELSE 0) + 1
        counts == Insert(acct.response_count, req_id, response_num)
        old_times == IF req_id \in DOMAIN acct.response_times
                     THEN acct.response_times[req_id] ELSE EmptyMap
        times == Insert(old_times, response_num, latency)
        alltimes == Insert(acct.response_times, req_id, times)
        status == Field(response, "status", "unknown")
        done == Terminal(response_num, status)
    IN  [acct |-> IF done
                  THEN Account(acct.authenticated,
                               Remove(acct.sent_time_map, req_id),
                               Remove(counts, req_id),
                               Remove(alltimes, req_id))
                  ELSE Account(acct.authenticated, acct.sent_time_map,
                               counts, alltimes),
         result |-> "Ok",
         out |-> [tag |-> "response", req_id |-> req_id,
                  num |-> response_num, latency |-> latency,
                  status |-> status,
                  retired |-> done,
                  summary |-> IF done THEN Summary(times, response_num)
                              ELSE Summary(EmptyMap, 0)]]

\* lines 299-382: the order-response branch
OrderResponse(acct, response, received_time) ==
    LET req_id == Field(response, "request_id", "") IN
    IF req_id = "" \/ req_id \notin DOMAIN acct.sent_time_map
    THEN [acct |-> acct, result |-> "Ok",
          out |-> [tag |-> "order_untracked"]]
    ELSE
    LET sent_time == acct.sent_time_map[req_id]
        latency == DurationSince(received_time, sent_time)
        response_num ==
            (IF req_id \in DOMAIN acct.response_count
             THEN acct.response_count[req_id] ELSE 0) + 1
        counts == Insert(acct.response_count, req_id, response_num)
        old_times == IF req_id \in DOMAIN acct.response_times
                     THEN acct.response_times[req_id] ELSE EmptyMap
        times == Insert(old_times, response_num, latency)
        alltimes == Insert(acct.response_times, req_id, times)
        status == Field(response, "status", "unknown")
        done == Terminal(response_num, status)
    IN  [acct |-> IF done
                  THEN Account(acct.authenticated,
                               Remove(acct.sent_time_map, req_id),
                               Remove(counts, req_id),
                               Remove(alltimes, req_id))
                  ELSE Account(acct.authenticated, acct.sent_time_map,
                               counts, alltimes),
         result |-> "Ok",
         out |-> [tag |-> "response", req_id |-> req_id,
                  num |-> response_num, latency |-> latency,
                  status |-> status,
                  retired |-> done,
                  summary |-> IF done THEN Summary(times, response_num)
                              ELSE Summary(EmptyMap, 0)]]

\* (mutant) any login response that carries a status authenticates
LoginResponseAnyStatus(acct, response) ==
    LET status == Field(response, "status", "") IN
    IF status # ""
    THEN [acct |-> [acct EXCEPT !.authenticated = TRUE], result |-> "Ok",
          out |-> [tag |-> "auth_ok"]]
    ELSE [acct |-> acct, result |-> "Ok", out |-> [tag |-> "auth_failed"]]

\* (mutant) a rejected login writes the flag back to false
LoginResponseResets(acct, response) ==
    LET status == Field(response, "status", "") IN
    IF status = "200"
    THEN [acct |-> [acct EXCEPT !.authenticated = TRUE], result |-> "Ok",
          out |-> [tag |-> "auth_ok"]]
    ELSE [acct |-> [acct EXCEPT !.authenticated = FALSE], result |-> "Ok",
          out |-> [tag |-> "auth_failed"]]

\* lines 256-290: the authentication-response branch
LoginResponse(acct, response) ==
    LET status == Field(response, "status", "") IN
    IF status = "200"
    THEN [acct |-> [acct EXCEPT !.authenticated = TRUE], result |-> "Ok",
          out |-> [tag |-> "auth_ok"]]
    ELSE [acct |-> acct, result |-> "Ok", out |-> [tag |-> "auth_failed"]]

\* (mutant) the parse result is unwrapped instead of propagated with `?`
HandleMessageUnwrap(acct, message, received_time) ==
    IF ~message.json
    THEN [acct |-> acct, result |-> "panic", out |-> [tag |-> "panic"]]
    ELSE
    LET channel == Field(message, "channel", "")
        event == Field(message, "event", "")
    IN  IF channel = "spot.login" /\ event = "api"
        THEN LoginResponse(acct, message)
        ELSE IF message.cut
        THEN [acct |-> acct, result |-> "panic", out |-> [tag |-> "panic"]]
        ELSE IF channel = "spot.ping" \/ channel = "spot.pong"
        THEN [acct |-> acct, result |-> "Ok", out |-> [tag |-> "ping_pong"]]
        ELSE IF channel = "spot.order_place" /\ event = "api"
        THEN OrderResponse(acct, message, received_time)
        ELSE [acct |-> acct, result |-> "Ok", out |-> [tag |-> "received"]]

(* handle_message(&self, message): the account after the call, the call's  *)
(* result ("Ok", "Err", or "panic" for the out-of-boundary slice at line   *)
(* 251) and what it printed.                                               *)
HandleMessage(acct, message, received_time) ==
    IF ~message.json
    THEN [acct |-> acct, result |-> "Err", out |-> [tag |-> "error"]]
    ELSE
    LET channel == Field(message, "channel", "")
        event == Field(message, "event", "")
    IN  IF channel = "spot.login" /\ event = "api"
        THEN LoginResponse(acct, message)
        ELSE IF message.cut
        THEN [acct |-> acct, result |-> "panic", out |-> [tag |-> "panic"]]
        ELSE IF channel = "spot.ping" \/ channel = "spot.pong"
        THEN [acct |-> acct, result |-> "Ok", out |-> [tag |-> "ping_pong"]]
        ELSE IF channel = "spot.order_place" /\ event = "api"
        THEN OrderResponse(acct, message, received_time)
        ELSE [acct |-> acct, result |-> "Ok", out |-> [tag |-> "received"]]

\* ------------------------------------------------------------------- f64
(* The prices are f64.  A finite f64 is sign * m * 2^-s with m a natural   *)
(* number of at most 53 bits; m is held as a sequence of digits of base    *)
(* 2^15, lowest first and without leading zeros (the integers of the       *)
(* checker have 32 bits).  A decimal is an integer in units of 0.0001.     *)
Limb == 32768

PriceUnit == 10000

MantissaBits == 53

Abs(x) == IF x < 0 THEN -x ELSE x

RECURSIVE BitLen(_)
BitLen(n) == IF n = 0 THEN 0 ELSE 1 + BitLen(n \div 2)

RECURSIVE BigFromNat(_)
BigFromNat(n) ==
    IF n = 0 THEN <<>> ELSE <<n % Limb>> \o BigFromNat(n \div Limb)

RECURSIVE BigNorm(_)
BigNorm(x) ==
    IF x # <<>> /\ x[Len(x)] = 0 THEN BigNorm(SubSeq(x, 1, Len(x) - 1))
    ELSE x

RECURSIVE BigMulSmall(_, _, _)
BigMulSmall(x, k, carry) ==
    IF x = <<>> THEN BigFromNat(carry)
    ELSE LET t == Head(x) * k + carry
         IN  <<t % Limb>> \o BigMulSmall(Tail(x), k, t \div Limb)

\* quotient and remainder of x by a divisor below Limb
RECURSIVE BigDivRem(_, _)
BigDivRem(x, d) ==
    IF x = <<>> THEN [q |-> <<>>, r |-> 0]
    ELSE LET hi == BigDivRem(Tail(x), d)
             cur == hi.r * Limb + Head(x)
         IN  [q |-> BigNorm(<<cur \div d>> \o hi.q), r |-> cur % d]

RECURSIVE BigAdd(_, _, _)
BigAdd(x, y, carry) ==
    IF x = <<>> /\ y = <<>> THEN BigFromNat(carry)
    ELSE LET a == IF x = <<>> THEN 0 ELSE Head(x)
             b == IF y = <<>> THEN 0 ELSE Head(y)
             t == a + b + carry
         IN  <<t % Limb>> \o BigAdd(IF x = <<>> THEN x ELSE Tail(x),
                                    IF y = <<>> THEN y ELSE Tail(y),
                                    t \div Limb)

\* x - y - borrow for x >= y + borrow, digit by digit
RECURSIVE BigSubDigits(_, _, _)
BigSubDigits(x, y, borrow) ==
    IF x = <<>> THEN <<>>
    ELSE LET t == Head(x) - (IF y = <<>> THEN 0 ELSE Head(y)) - borrow
         IN  <<IF t < 0 THEN t + Limb ELSE t>>
             \o BigSubDigits(Tail(x), IF y = <<>> THEN y ELSE Tail(y),
                             IF t < 0 THEN 1 ELSE 0)

BigSub(x, y) == BigNorm(BigSubDigits(x, y, 0))

\* -1, 0 or 1 as x is below, equal to or above y, from digit i down
RECURSIVE BigCmpFrom(_, _, _)
BigCmpFrom(x, y, i) ==
    IF i = 0 THEN 0
    ELSE IF x[i] < y[i] THEN -1
    ELSE IF x[i] > y[i] THEN 1
    ELSE BigCmpFrom(x, y, i - 1)

BigCmp(x, y) ==
    IF Len(x) < Len(y) THEN -1
    ELSE IF Len(x) > Len(y) THEN 1
    ELSE BigCmpFrom(x, y, Len(x))

\* x * 2^k
BigShl(x, k) ==
    IF x = <<>> THEN <<>>
    ELSE [i \in 1..(k \div 15) |-> 0] \o BigMulSmall(x, 2^(k % 15), 0)

\* x / 2^k, rounded down
BigShr(x, k) ==
    IF Len(x) <= k \div 15 THEN <<>>
    ELSE BigDivRem(SubSeq(x, (k \div 15) + 1, Len(x)), 2^(k % 15)).q

BigBitLen(x) ==
    IF x = <<>> THEN 0 ELSE (Len(x) - 1) * 15 + BitLen(x[Len(x)])

BigOdd(x) == x # <<>> /\ Head(x) % 2 = 1

\* round to nearest, ties to even: q when what was cut off is below half
RoundedUp(q, cmp_half) ==
    IF cmp_half > 0 \/ (cmp_half = 0 /\ BigOdd(q)) THEN BigAdd(q, <<>>, 1)
    ELSE q

\* the f64 nearest to n / 10000 * 2^s, for n > 0
Scaled(n, s) ==
    LET d == BigDivRem(BigShl(BigFromNat(n), s), PriceUnit)
        c == IF 2 * d.r > PriceUnit THEN 1
             ELSE IF 2 * d.r = PriceUnit THEN 0 ELSE -1
    IN  [floor |-> d.q, m |-> RoundedUp(d.q, c)]

\* str::parse::<f64> of a decimal (line 422), correctly rounded
F64FromDecimal(v) ==
    LET n == Abs(v)
        s == MantissaBits + 14 - BitLen(n)
        first == Scaled(n, s)
        wide == BigBitLen(first.floor) > MantissaBits
    IN  IF n = 0 THEN [neg |-> FALSE, m |-> <<>>, s |-> 0]
        ELSE [neg |-> v < 0,
              m |-> IF wide THEN Scaled(n, s - 1).m ELSE first.m,
              s |-> IF wide THEN s - 1 ELSE s]

\* (a - b).abs() of two finite f64, rounded as the subtraction rounds
F64AbsDiff(a, b) ==
    LET s == IF a.s > b.s THEN a.s ELSE b.s
        x == BigShl(a.m, s - a.s)
        y == BigShl(b.m, s - b.s)
        d == IF a.neg # b.neg THEN BigAdd(x, y, 0)
             ELSE IF BigCmp(x, y) >= 0 THEN BigSub(x, y)
             ELSE BigSub(y, x)
        cut == BigBitLen(d) - MantissaBits
        q == BigShr(d, cut)
        rest == BigSub(d, BigShl(q, cut))
    IN  IF cut <= 0 THEN [neg |-> FALSE, m |-> d, s |-> s]
        ELSE [neg |-> FALSE,
              m |-> RoundedUp(q, BigCmp(rest, BigShl(<<1>>, cut - 1))),
              s |-> s - cut]

\* a > b for two f64 that are not negative
F64Above(a, b) ==
    LET s == IF a.s > b.s THEN a.s ELSE b.s
    IN  BigCmp(BigShl(a.m, s - a.s), BigShl(b.m, s - b.s)) > 0

\* the values of a price: a decimal, an infinity, NaN
Num(v) == [cls |-> "num", val |-> v]

Infinity == [cls |-> "inf", val |-> 0]

NegInfinity == [cls |-> "-inf", val |-> 0]

NaN == [cls |-> "nan", val |-> 0]

\* Option::None where a price may stand
NoPrice == [cls |-> "none", val |-> 0]

\* x > 0.0
AboveZero(x) == x.cls = "inf" \/ (x.cls = "num" /\ x.val > 0)

\* x <= 0.0
ZeroOrBelow(x) == x.cls = "-inf" \/ (x.cls = "num" /\ x.val <= 0)

(* (a - b).abs() > eps for decimals a, b and eps.  The three conversions   *)
(* and the subtraction each round by less than 2^-35 (a decimal here is    *)
(* below 2^18), far less than one unit of the decimals: when the decimals  *)
(* do not lie exactly eps apart the f64 compare as the decimals do; when   *)
(* they do, the roundings decide (0.101 - 0.1 > 0.001, 1.001 - 1.0 not).   *)
DecimalDiffAbove(a, b, eps) ==
    IF Abs(a - b) # eps THEN Abs(a - b) > eps
    ELSE F64Above(F64AbsDiff(F64FromDecimal(a), F64FromDecimal(b)),
                  F64FromDecimal(eps))

(* (a - b).abs() > eps for a decimal eps: NaN compares false, and so does  *)
(* the difference of two equal infinities, which is NaN.                   *)
AbsDiffAbove(a, b, eps) ==
    IF a.cls = "nan" \/ b.cls = "nan" THEN FALSE
    ELSE IF a.cls # "num" \/ b.cls # "num" THEN a.cls # b.cls
    ELSE DecimalDiffAbove(a.val, b.val, eps)

\* ------------------------------------------------------ market-data frames
(* A text frame of the market-data connection: whether it is a             *)
(* spot.book_ticker/update for the subscribed pair (lines 415-420), and    *)
(* its result.a field: "num" a string that parses as a decimal (`val`),    *)
(* "inf", "-inf" and "nan" a string that parses as that ("inf", "-inf",    *)
(* "NaN"), "text" a string that does not parse, "absent" no such field.    *)
AskValues == {0, 1000}

FeedFrames ==
    {[ticker |-> TRUE, a |-> "num", val |-> v] : v \in AskValues}
    \cup {[ticker |-> TRUE, a |-> "text", val |-> 0],
          [ticker |-> TRUE, a |-> "absent", val |-> 0],
          [ticker |-> FALSE, a |-> "num", val |-> 1000]}

\* lines 421-424: result.a as a string, parsed, or 0.0
BestAsk(frame) ==
    CASE frame.a = "num" -> Num(frame.val)
      [] frame.a = "inf" -> Infinity
      [] frame.a = "-inf" -> NegInfinity
      [] frame.a = "nan" -> NaN
      [] OTHER -> Num(0)

\* lines 435-437
ShouldPrint(old_price, best_ask, current_time, last_print) ==
    \/ old_price = NoPrice
    \/ AbsDiffAbove(best_ask, old_price, PRINT_EPS)
    \/ DurationSince(current_time, last_print) > PRINT_WINDOW

\* (mutant) the trigger does not look at the flag
TriggerConditionWithoutFlag(placed, best_ask, is_authenticated) ==
    AboveZero(best_ask) /\ is_authenticated

\* (mutant) the trigger does not wait for the login
TriggerConditionWithoutLogin(placed, best_ask, is_authenticated) ==
    ~placed /\ AboveZero(best_ask)

\* line 448
TriggerCondition(placed, best_ask, is_authenticated) ==
    ~placed /\ AboveZero(best_ask) /\ is_authenticated

\* str::to_lowercase on the strings the program passes (lines 194-198)
ToLowercase(s) ==
    CASE s = "BUY" -> "buy"
      [] s = "SELL" -> "sell"
      [] OTHER -> s

\* lines 192-209: the order frame create_order serializes
OrderFrame(req, side, symbol, quantity, price, order_type, time_in_force) ==
    [channel |-> "spot.order_place", event |-> "api", req_id |-> req,
     currency_pair |-> symbol, side |-> ToLowercase(side),
     type |-> ToLowercase(order_type), amount |-> quantity, price |-> price,
     time_in_force |-> ToLowercase(time_in_force)]

\* (mutant) an amount of zero passes the validation
OrderRejectedBelowZero(is_authenticated, amount, price) ==
    ~is_authenticated \/ amount < 0 \/ ZeroOrBelow(price)

\* line 184
OrderRejected(is_authenticated, amount, price) ==
    ~is_authenticated \/ amount <= 0 \/ ZeroOrBelow(price)

\* (mutant) the trigger is only looked at when the price is displayed
BookTickerUpdateGated(sp, last_print, placed, logged_in, frame, current_time) ==
    LET best_ask == BestAsk(frame)
        old_price == sp.gia_mua_gate
        should_print == ShouldPrint(old_price, best_ask, current_time,
                                    last_print)
        fire == /\ should_print
                /\ TriggerCondition(placed, best_ask, logged_in)
    IN  [share_price |-> [gia_mua_gate |-> best_ask,
                          time_gia_gate |-> TRUE,
                          orderbook_ready |-> TRUE],
         last_price_print |-> IF should_print THEN current_time
                              ELSE last_print,
         order_placed |-> (placed \/ fire),
         best_ask |-> best_ask,
         should_print |-> should_print,
         fire |-> fire]

(* lines 421-449: what the feed does with a book-ticker update for the     *)
(* subscribed pair, given the cells it locks: the new price sample and     *)
(* last display time, whether it displays the price and whether it fires   *)
(* the trigger.                                                            *)
BookTickerUpdate(sp, last_print, placed, logged_in, frame, current_time) ==
    LET best_ask == BestAsk(frame)
        old_price == sp.gia_mua_gate
        should_print == ShouldPrint(old_price, best_ask, current_time,
                                    last_print)
        fire == TriggerCondition(placed, best_ask, logged_in)
    IN  [share_price |-> [gia_mua_gate |-> best_ask,
                          time_gia_gate |-> TRUE,
                          orderbook_ready |-> TRUE],
         last_price_print |-> IF should_print THEN current_time
                              ELSE last_print,
         order_placed |-> (placed \/ fire),
         best_ask |-> best_ask,
         should_print |-> should_print,
         fire |-> fire]

\* ------------------------------------------------------------ the mutexes
(* Every shared cell is a std::sync::Mutex.  A task's critical section is  *)
(* the sequence of lock operations it performs: "lock" blocks until the    *)
(* mutex is free and takes it, "drop" is the guard going out of scope.     *)
Tasks == {"session", "order", "feed"}

Mutexes ==
    {"authenticated", "sent_time_map", "response_count", "response_times",
     "share_price", "last_price_print", "order_placed"}

Acq(m) == [op |-> "lock", m |-> m]

Rel(m) == [op |-> "drop", m |-> m]

\* (mutant) create_order holds the three maps together, the last one first
CreateOrderLocksNested ==
    <<Acq("authenticated"), Rel("authenticated"),
      Acq("response_times"), Acq("response_count"), Acq("sent_time_map"),
      Rel("sent_time_map"), Rel("response_count"), Rel("response_times")>>

\* lines 183, 213, 214, 215: each guard is a temporary of its statement
CreateOrderLocks ==
    <<Acq("authenticated"), Rel("authenticated"),
      Acq("sent_time_map"), Rel("sent_time_map"),
      Acq("response_count"), Rel("response_count"),
      Acq("response_times"), Rel("response_times")>>

\* the branches of handle_message that lock something
MessageKinds == {"login_200", "order_tracked", "order_untracked"}

(* handle_message: line 278 (a temporary); lines 309, 315, 321 (guards     *)
(* held to the end of their blocks, lines 380-381); lines 309-310 when the *)
(* id is not pending.                                                      *)
HandleMessageLocks(kind) ==
    CASE kind = "login_200" ->
           <<Acq("authenticated"), Rel("authenticated")>>
      [] kind = "order_tracked" ->
           <<Acq("sent_time_map"), Acq("response_count"),
             Acq("response_times"), Rel("response_times"),
             Rel("response_count"), Rel("sent_time_map")>>
      [] kind = "order_untracked" ->
           <<Acq("sent_time_map"), Rel("sent_time_map")>>
      [] OTHER -> <<>>

\* lines 426, 433, 445 (a temporary), 446; the guards go at line 481
BookTickerLocks ==
    <<Acq("share_price"), Acq("last_price_print"),
      Acq("authenticated"), Rel("authenticated"),
      Acq("order_placed"), Rel("order_placed"),
      Rel("last_price_print"), Rel("share_price")>>

\* lines 106-109, 408-410: every mutex is created unlocked
NoLocks ==
    [owner |-> [m \in Mutexes |-> "free"],
     todo |-> [t \in Tasks |-> <<>>],
     created |-> FALSE]

VARIABLES
    proc,              \* "running" | "exited" (main returned) | "panicked"
    \* GateIOAccount
    api_key,
    authenticated,
    sent_time_map,
    response_count,
    response_times,
    \* start_trading_ws
    tradingPc,         \* "connect" | "connecting" | "auth" | "recv"
                       \* | "sleep_err" (line 543) | "sleep" (line 548)
    tradingSleep,      \* what is left of the current sleep
    \* start_gateio_orderbook_ws
    feedPc,            \* "connect" | "subscribe" | "recv" | "returned"
    share_price,       \* time_gia_gate: whether it holds a timestamp (the
                       \* text of the timestamp is not modelled)
    last_price_print,
    order_placed,
    \* the task spawned at line 456
    orderPc,           \* "idle" | "sleep" | "connect" | "check" | "sent"
                       \* | "count" | "times" | "send" | "done"
    orderSleep,        \* what is left of the settling delay
    best_ask_clone,
    quantity,          \* create_order's argument (line 467)
    req_id,
    order_frames,      \* the frames submitted on the order connection
    \* observation
    out,               \* what the handler run by the step just taken
                       \* reported (handle_message, the ticker handler,
                       \* create_order); Quiet when it ran none
    hist,              \* what has happened so far (see Init)
    mutex              \* the std::sync::Mutex cells: who holds each, and
                       \* the lock operations each task has still to do
                       \* in the critical section it is in (see Locking)

acctVars == <<authenticated, sent_time_map, response_count, response_times>>
tradingVars == <<tradingPc, tradingSleep>>
feedVars == <<feedPc, share_price, last_price_print, order_placed>>
orderVars ==
    <<orderPc, orderSleep, best_ask_clone, quantity, req_id, order_frames>>

progVars == <<proc, api_key, acctVars, tradingVars, feedVars, orderVars, out, hist>>

vars == <<progVars, mutex>>

Init ==
    /\ proc = "running"
    /\ api_key \in ApiKeys
    /\ authenticated = FALSE
    /\ sent_time_map = EmptyMap
    /\ response_count = EmptyMap
    /\ response_times = EmptyMap
    /\ tradingPc = "connect"
    /\ tradingSleep = 0
    /\ feedPc = "connect"
    /\ share_price = [gia_mua_gate |-> NoPrice, time_gia_gate |-> FALSE,
                      orderbook_ready |-> FALSE]
    /\ last_price_print = Now
    /\ order_placed = FALSE
    /\ orderPc = "idle"
    /\ orderSleep = 0
    /\ best_ask_clone = NoPrice
    /\ quantity = NoValue
    /\ req_id = ""
    /\ order_frames = <<>>
    /\ out = Quiet
    /\ mutex = NoLocks
    /\ hist = [login_sent |-> FALSE,   \* a spot.login frame has been sent
               login_200 |-> FALSE,    \* a login response "200" was handled
               spawned |-> 0,          \* order tasks spawned
               trigger_ask |-> NoPrice, \* the ask of the update that
                                       \* fired the trigger
               retired |-> {},         \* request ids whose entry was removed
               lost |-> NoValue,       \* time since the trading attempt
                                       \* before the coming one ended
               gap |-> NoValue,        \* the delay between that and the
                                       \* attempt now in progress
               order_acked |-> FALSE,  \* the exchange has answered on the
                                       \* order connection
               conn_200 |-> FALSE,     \* the connection now open has had a
                                       \* login response "200"
               first_ack |-> NoValue]  \* time since the response recorded
                                       \* as response_1 of a pending entry

Running == proc = "running"

(* A step that has to happen before the clock moves on: code that runs     *)
(* without an await, and a sleep that is over.  A connection attempt, a    *)
(* receive and the sends of lines 167, 405 and 225 take the time the       *)
(* transport takes; authenticate panics, if it does, before its send.      *)
Due ==
    \/ tradingPc = "connect"
    \/ tradingPc = "auth" /\ AuthenticatePanics(api_key)
    \/ tradingPc \in {"sleep_err", "sleep"} /\ tradingSleep = 0
    \/ orderPc = "sleep" /\ orderSleep = 0
    \/ orderPc \in {"check", "sent", "count", "times"}

\* line 437 only asks whether more than PRINT_WINDOW has passed
Older(age) == IF age <= PRINT_WINDOW THEN age + 1 ELSE PRINT_WINDOW + 1

Shorter(sleep) == IF sleep > 0 THEN sleep - 1 ELSE 0

\* the age of a send time (line 212) one time unit later
Aged(age, horizon) ==
    IF age = Beyond THEN Beyond
    ELSE IF age < horizon THEN age + 1 ELSE Beyond

\* One time unit passes on a clock that keeps ages up to `horizon`.
TickUpTo(horizon) ==
    /\ Running
    /\ ~Due
    /\ sent_time_map' =
           [id \in DOMAIN sent_time_map |-> Aged(sent_time_map[id], horizon)]
    /\ last_price_print' = Older(last_price_print)
    /\ tradingSleep' = Shorter(tradingSleep)
    /\ orderSleep' = Shorter(orderSleep)
    /\ hist' = [hist EXCEPT
           !.lost = IF @ = NoValue THEN NoValue ELSE @ + 1,
           !.first_ack = IF @ = NoValue THEN NoValue ELSE Aged(@, horizon)]
    /\ out' = Quiet
    /\ UNCHANGED <<proc, authenticated, response_count, response_times,
                   tradingPc, feedPc, share_price, order_placed, orderPc,
                   best_ask_clone, quantity, req_id, order_frames>>
    /\ UNCHANGED <<api_key, mutex>>

Tick == TickUpTo(MaxLatency)

\* ------------------------------------------------------- start_trading_ws
\* line 498: the loop starts a connection attempt
TradingConnect ==
    /\ Running
    /\ tradingPc = "connect"
    /\ tradingPc' = "connecting"
    /\ hist' = [hist EXCEPT !.gap = hist.lost, !.lost = NoValue]
    /\ out' = Quiet
    /\ UNCHANGED <<proc, acctVars, tradingSleep, feedVars, orderVars>>
    /\ UNCHANGED <<api_key, mutex>>

\* lines 499-503
TradingConnectOk ==
    /\ Running
    /\ tradingPc = "connecting"
    /\ tradingPc' = "auth"
    /\ hist' = [hist EXCEPT !.gap = NoValue]
    /\ out' = Quiet
    /\ UNCHANGED <<proc, acctVars, tradingSleep, feedVars, orderVars>>
    /\ UNCHANGED <<api_key, mutex>>

\* lines 541-544: the attempt fails, the first sleep starts
TradingConnectErr ==
    /\ Running
    /\ tradingPc = "connecting"
    /\ tradingPc' = "sleep_err"
    /\ tradingSleep' = RECONNECT_DELAY
    /\ hist' = [hist EXCEPT !.lost = 0, !.gap = NoValue]
    /\ out' = Quiet
    /\ UNCHANGED <<proc, acctVars, feedVars, orderVars>>
    /\ UNCHANGED <<api_key, mutex>>

\* the sleep of line 543 is over: lines 547-548
TradingSleepAgain ==
    /\ Running
    /\ tradingPc = "sleep_err"
    /\ tradingSleep = 0
    /\ tradingPc' = "sleep"
    /\ tradingSleep' = RECONNECT_DELAY
    /\ out' = Quiet
    /\ UNCHANGED <<proc, acctVars, feedVars, orderVars, hist>>
    /\ UNCHANGED <<api_key, mutex>>

\* the sleep of line 548 is over: back to line 497
TradingWake ==
    /\ Running
    /\ tradingPc = "sleep"
    /\ tradingSleep = 0
    /\ tradingPc' = "connect"
    /\ out' = Quiet
    /\ UNCHANGED <<proc, acctVars, tradingSleep, feedVars, orderVars, hist>>
    /\ UNCHANGED <<api_key, mutex>>

\* lines 139-171, 506: authenticate sends the signed spot.login frame
TradingAuthOk ==
    /\ Running
    /\ tradingPc = "auth"
    /\ ~AuthenticatePanics(api_key)
    /\ tradingPc' = "recv"
    /\ hist' = [hist EXCEPT !.login_sent = TRUE]
    /\ out' = Quiet
    /\ UNCHANGED <<proc, acctVars, tradingSleep, feedVars, orderVars>>
    /\ UNCHANGED <<api_key, mutex>>

\* lines 145, 165, 506: authenticate panics in main's task
TradingAuthPanic ==
    /\ Running
    /\ tradingPc = "auth"
    /\ AuthenticatePanics(api_key)
    /\ proc' = "panicked"
    /\ out' = Quiet
    /\ UNCHANGED <<acctVars, tradingVars, feedVars, orderVars, hist>>
    /\ UNCHANGED <<api_key, mutex>>

\* (mutant) the send fails and the error is returned: the Session ends
TradingAuthErrReturns ==
    /\ Running
    /\ tradingPc = "auth"
    /\ ~AuthenticatePanics(api_key)
    /\ tradingPc' = "returned"
    /\ proc' = "exited"
    /\ hist' = [hist EXCEPT !.lost = 0]
    /\ out' = Quiet
    /\ UNCHANGED <<acctVars, tradingSleep, feedVars, orderVars>>
    /\ UNCHANGED <<api_key, mutex>>

\* lines 506-509: the send fails, `continue`
TradingAuthErr ==
    /\ Running
    /\ tradingPc = "auth"
    /\ ~AuthenticatePanics(api_key)
    /\ tradingPc' = "connect"
    /\ hist' = [hist EXCEPT !.lost = 0]
    /\ out' = Quiet
    /\ UNCHANGED <<proc, acctVars, tradingSleep, feedVars, orderVars>>
    /\ UNCHANGED <<api_key, mutex>>

\* What a frame is, read off its fields (for the observations in `hist`).
IsLogin(message) ==
    /\ message.json
    /\ Field(message, "channel", "") = "spot.login"
    /\ Field(message, "event", "") = "api"

IsLogin200(message) ==
    IsLogin(message) /\ Field(message, "status", "") = "200"

IsOrderResponse(message) ==
    /\ message.json
    /\ Field(message, "channel", "") = "spot.order_place"
    /\ Field(message, "event", "") = "api"

RequestId(message) == Field(message, "request_id", "")

Tracked(message) == RequestId(message) \in DOMAIN sent_time_map

\* the frames that reach the order-response branch of handle_message
OrderResponses == {m \in TradingFrames : IsOrderResponse(m)}

\* lines 524-528: a text frame goes to handle_message
TradingText(message) ==
    /\ Running
    /\ tradingPc = "recv"
    /\ LET r == HandleMessage(Account(authenticated, sent_time_map,
                                      response_count, response_times),
                              message, Now)
       IN  /\ authenticated' = r.acct.authenticated
           /\ sent_time_map' = r.acct.sent_time_map
           /\ response_count' = r.acct.response_count
           /\ response_times' = r.acct.response_times
           /\ out' = r.out
           /\ proc' = IF r.result = "panic" THEN "panicked" ELSE proc
           /\ hist' = [hist EXCEPT
                  !.login_200 = @ \/ IsLogin200(message),
                  !.conn_200 = @ \/ IsLogin200(message),
                  !.retired = @ \cup (DOMAIN sent_time_map
                                         \ DOMAIN r.acct.sent_time_map),
                  !.first_ack =
                      IF r.acct.sent_time_map # sent_time_map THEN NoValue
                      ELSE IF r.result = "Ok" /\ IsOrderResponse(message)
                              /\ Tracked(message)
                              /\ Get(response_count, RequestId(message)) <= 0
                      THEN 0 ELSE @]
    /\ UNCHANGED <<tradingVars, feedVars, orderVars>>
    /\ UNCHANGED <<api_key, mutex>>

\* lines 529-532: a close frame; the stream ending leaves the loop as well
TradingClose ==
    /\ Running
    /\ tradingPc = "recv"
    /\ tradingPc' = "sleep"
    /\ tradingSleep' = RECONNECT_DELAY
    /\ hist' = [hist EXCEPT !.lost = 0, !.conn_200 = FALSE]
    /\ out' = Quiet
    /\ UNCHANGED <<proc, acctVars, feedVars, orderVars>>
    /\ UNCHANGED <<api_key, mutex>>

\* lines 533-536: a transport error
TradingError ==
    /\ Running
    /\ tradingPc = "recv"
    /\ tradingPc' = "sleep"
    /\ tradingSleep' = RECONNECT_DELAY
    /\ hist' = [hist EXCEPT !.lost = 0, !.conn_200 = FALSE]
    /\ out' = Quiet
    /\ UNCHANGED <<proc, acctVars, feedVars, orderVars>>
    /\ UNCHANGED <<api_key, mutex>>

Trading ==
    \/ TradingConnect
    \/ TradingConnectOk
    \/ TradingConnectErr
    \/ TradingSleepAgain
    \/ TradingWake
    \/ TradingAuthOk
    \/ TradingAuthErr
    \/ TradingAuthPanic
    \/ \E message \in TradingFrames : TradingText(message)
    \/ TradingClose
    \/ TradingError

\* ------------------------------------------- start_gateio_orderbook_ws
\* line 392
FeedConnectOk ==
    /\ Running
    /\ feedPc = "connect"
    /\ feedPc' = "subscribe"
    /\ out' = Quiet
    /\ UNCHANGED <<proc, acctVars, tradingVars, share_price,
                   last_price_print, order_placed, orderVars, hist>>
    /\ UNCHANGED <<api_key, mutex>>

\* line 392: `?` returns the error, and main returns (lines 582-595)
FeedConnectErr ==
    /\ Running
    /\ feedPc = "connect"
    /\ feedPc' = "returned"
    /\ proc' = "exited"
    /\ out' = Quiet
    /\ UNCHANGED <<acctVars, tradingVars, share_price, last_price_print,
                   order_placed, orderVars, hist>>
    /\ UNCHANGED <<api_key, mutex>>

\* lines 397-410
FeedSubscribeOk ==
    /\ Running
    /\ feedPc = "subscribe"
    /\ feedPc' = "recv"
    /\ last_price_print' = Now
    /\ out' = Quiet
    /\ UNCHANGED <<proc, acctVars, tradingVars, share_price, order_placed,
                   orderVars, hist>>
    /\ UNCHANGED <<api_key, mutex>>

\* line 405: `?`
FeedSubscribeErr ==
    /\ Running
    /\ feedPc = "subscribe"
    /\ feedPc' = "returned"
    /\ proc' = "exited"
    /\ out' = Quiet
    /\ UNCHANGED <<acctVars, tradingVars, share_price, last_price_print,
                   order_placed, orderVars, hist>>
    /\ UNCHANGED <<api_key, mutex>>

\* lines 414-485: a text frame of the market-data connection
FeedText(frame) ==
    /\ Running
    /\ feedPc = "recv"
    /\ IF ~frame.ticker
       THEN /\ out' = Quiet
            /\ UNCHANGED <<share_price, last_price_print, order_placed,
                           orderPc, orderSleep, best_ask_clone, quantity, hist>>
       ELSE LET r == BookTickerUpdate(share_price, last_price_print,
                                      order_placed, authenticated, frame, Now)
            IN  /\ share_price' = r.share_price
                /\ last_price_print' = r.last_price_print
                /\ order_placed' = r.order_placed
                /\ orderPc' = IF r.fire THEN "sleep" ELSE orderPc
                /\ orderSleep' = IF r.fire THEN SETTLE_DELAY ELSE orderSleep
                /\ best_ask_clone' =
                       IF r.fire THEN r.best_ask ELSE best_ask_clone
                /\ quantity' = IF r.fire THEN SO_COIN_DANH ELSE quantity
                /\ hist' = [hist EXCEPT
                       !.spawned = IF r.fire THEN @ + 1 ELSE @,
                       !.trigger_ask = IF r.fire THEN BestAsk(frame) ELSE @]
                /\ out' = [tag |-> "update", printed |-> r.should_print]
    /\ UNCHANGED <<proc, acctVars, tradingVars, feedPc, req_id, order_frames>>
    /\ UNCHANGED <<api_key, mutex>>

\* line 486 (close frame), line 412 (the stream ends): Ok(()), main returns
FeedClose ==
    /\ Running
    /\ feedPc = "recv"
    /\ feedPc' = "returned"
    /\ proc' = "exited"
    /\ out' = Quiet
    /\ UNCHANGED <<acctVars, tradingVars, share_price, last_price_print,
                   order_placed, orderVars, hist>>
    /\ UNCHANGED <<api_key, mutex>>

\* line 413: `message?` returns the transport error, main returns
FeedError ==
    /\ Running
    /\ feedPc = "recv"
    /\ feedPc' = "returned"
    /\ proc' = "exited"
    /\ out' = Quiet
    /\ UNCHANGED <<acctVars, tradingVars, share_price, last_price_print,
                   order_placed, orderVars, hist>>
    /\ UNCHANGED <<api_key, mutex>>

Feed ==
    \/ FeedConnectOk
    \/ FeedConnectErr
    \/ FeedSubscribeOk
    \/ FeedSubscribeErr
    \/ \E frame \in FeedFrames : FeedText(frame)
    \/ FeedClose
    \/ FeedError

\* ------------------------------------------------ the spawned order task
\* line 457 is over
OrderWakeUp ==
    /\ Running
    /\ orderPc = "sleep"
    /\ orderSleep = 0
    /\ orderPc' = "connect"
    /\ out' = Quiet
    /\ UNCHANGED <<proc, acctVars, tradingVars, feedVars, orderSleep,
                   best_ask_clone, quantity, req_id, order_frames, hist>>
    /\ UNCHANGED <<api_key, mutex>>

\* lines 460-461
OrderConnectOk ==
    /\ Running
    /\ orderPc = "connect"
    /\ orderPc' = "check"
    /\ out' = Quiet
    /\ UNCHANGED <<proc, acctVars, tradingVars, feedVars, orderSleep,
                   best_ask_clone, quantity, req_id, order_frames, hist>>
    /\ UNCHANGED <<api_key, mutex>>

\* line 460: the `if let Ok` fails, the task ends
OrderConnectErr ==
    /\ Running
    /\ orderPc = "connect"
    /\ orderPc' = "done"
    /\ out' = Quiet
    /\ UNCHANGED <<proc, acctVars, tradingVars, feedVars, orderSleep,
                   best_ask_clone, quantity, req_id, order_frames, hist>>
    /\ UNCHANGED <<api_key, mutex>>

\* lines 183-190: the validation, then the request id from the clock
CreateOrderCheck ==
    /\ Running
    /\ orderPc = "check"
    /\ IF OrderRejected(authenticated, quantity, best_ask_clone)
       THEN /\ orderPc' = "done"
            /\ out' = [tag |-> "cannot_place"]
            /\ UNCHANGED req_id
       ELSE /\ orderPc' = "sent"
            /\ out' = Quiet
            /\ req_id' = ClockId
    /\ UNCHANGED <<proc, acctVars, tradingVars, feedVars, orderSleep,
                   best_ask_clone, quantity, order_frames, hist>>
    /\ UNCHANGED <<api_key, mutex>>

\* lines 212-213
CreateOrderSentTime ==
    /\ Running
    /\ orderPc = "sent"
    /\ orderPc' = "count"
    /\ sent_time_map' = Insert(sent_time_map, req_id, Now)
    /\ out' = Quiet
    /\ UNCHANGED <<proc, authenticated, response_count, response_times,
                   tradingVars, feedVars, orderSleep, best_ask_clone,
                   quantity, req_id, order_frames, hist>>
    /\ UNCHANGED <<api_key, mutex>>

\* line 214
CreateOrderCount ==
    /\ Running
    /\ orderPc = "count"
    /\ orderPc' = "times"
    /\ response_count' = Insert(response_count, req_id, 0)
    /\ out' = Quiet
    /\ UNCHANGED <<proc, authenticated, sent_time_map, response_times,
                   tradingVars, feedVars, orderSleep, best_ask_clone,
                   quantity, req_id, order_frames, hist>>
    /\ UNCHANGED <<api_key, mutex>>

\* line 215
CreateOrderTimes ==
    /\ Running
    /\ orderPc = "times"
    /\ orderPc' = "send"
    /\ response_times' = Insert(response_times, req_id, EmptyMap)
    /\ out' = [tag |-> "placing"]
    /\ UNCHANGED <<proc, authenticated, sent_time_map, response_count,
                   tradingVars, feedVars, orderSleep, best_ask_clone,
                   quantity, req_id, order_frames, hist>>
    /\ UNCHANGED <<api_key, mutex>>

\* (mutant) the frame carries the shared price sample of the moment
CreateOrderSendSharedPrice ==
    /\ Running
    /\ orderPc = "send"
    /\ orderPc' = "done"
    /\ order_frames' = Append(order_frames,
           OrderFrame(req_id, "BUY", "alch_usdt", quantity,
                      share_price.gia_mua_gate, "limit", "gtc"))
    /\ out' = Quiet
    /\ UNCHANGED <<proc, acctVars, tradingVars, feedVars, orderSleep,
                   best_ask_clone, quantity, req_id, hist>>
    /\ UNCHANGED <<api_key, mutex>>

\* lines 224-227, then the task ends and drops order_sender
CreateOrderSendOk ==
    /\ Running
    /\ orderPc = "send"
    /\ orderPc' = "done"
    /\ order_frames' = Append(order_frames,
           OrderFrame(req_id, "BUY", "alch_usdt", quantity,
                      best_ask_clone, "limit", "gtc"))
    /\ out' = Quiet
    /\ UNCHANGED <<proc, acctVars, tradingVars, feedVars, orderSleep,
                   best_ask_clone, quantity, req_id, hist>>
    /\ UNCHANGED <<api_key, mutex>>

\* line 225: `?`
CreateOrderSendErr ==
    /\ Running
    /\ orderPc = "send"
    /\ orderPc' = "done"
    /\ out' = Quiet
    /\ UNCHANGED <<proc, acctVars, tradingVars, feedVars, orderSleep,
                   best_ask_clone, quantity, req_id, order_frames, hist>>
    /\ UNCHANGED <<api_key, mutex>>

(* The exchange answers the order on the connection it came in on.  Line   *)
(* 461 drops the receiving half of that connection, so nothing reads it.   *)
OrderConnectionAck ==
    /\ Running
    /\ Len(order_frames) > 0
    /\ ~hist.order_acked
    /\ hist' = [hist EXCEPT !.order_acked = TRUE]
    /\ out' = Quiet
    /\ UNCHANGED <<proc, acctVars, tradingVars, feedVars, orderVars>>
    /\ UNCHANGED <<api_key, mutex>>

Order ==
    \/ OrderWakeUp
    \/ OrderConnectOk
    \/ OrderConnectErr
    \/ CreateOrderCheck
    \/ CreateOrderSentTime
    \/ CreateOrderCount
    \/ CreateOrderTimes
    \/ CreateOrderSendOk
    \/ CreateOrderSendErr
    \/ OrderConnectionAck

\* ------------------------------------------------- the critical sections
\* the receive loop calls handle_message with a frame of some kind
SessionLocks ==
    /\ mutex.todo["session"] = <<>>
    /\ \E kind \in MessageKinds :
          mutex' = [mutex EXCEPT !.todo["session"] = HandleMessageLocks(kind)]
    /\ UNCHANGED progVars

\* the order task calls create_order, once
OrderLocks ==
    /\ ~mutex.created
    /\ mutex' = [mutex EXCEPT !.todo["order"] = CreateOrderLocks,
                              !.created = TRUE]
    /\ UNCHANGED progVars

\* the feed handles a book-ticker update
FeedLocks ==
    /\ mutex.todo["feed"] = <<>>
    /\ mutex' = [mutex EXCEPT !.todo["feed"] = BookTickerLocks]
    /\ UNCHANGED progVars

\* Mutex::lock returns
Lock(t) ==
    /\ mutex.todo[t] # <<>>
    /\ Head(mutex.todo[t]).op = "lock"
    /\ mutex.owner[Head(mutex.todo[t]).m] = "free"
    /\ mutex' = [mutex EXCEPT !.owner[Head(mutex.todo[t]).m] = t,
                              !.todo[t] = Tail(@)]
    /\ UNCHANGED progVars

\* a guard is dropped
Drop(t) ==
    /\ mutex.todo[t] # <<>>
    /\ Head(mutex.todo[t]).op = "drop"
    /\ mutex' = [mutex EXCEPT !.owner[Head(mutex.todo[t]).m] = "free",
                              !.todo[t] = Tail(@)]
    /\ UNCHANGED progVars

Locking ==
    \/ SessionLocks
    \/ OrderLocks
    \/ FeedLocks
    \/ \E t \in Tasks : Lock(t)
    \/ \E t \in Tasks : Drop(t)

\* The three tasks at the grain of their lock operations.
LockSpec == Init /\ [][Locking]_vars

Next == Tick \/ Trading \/ Feed \/ Order

Spec == Init /\ [][Next]_vars

(* The program with a finer market: the feed carries two positive asks     *)
(* that lie within PRINT_EPS of each other and an infinite one, and the    *)
(* trading transport connects, takes the login request, answers it and may close.            *)
MarketAskValues == {0, 1000, 1004}

MarketFrames ==
    {[ticker |-> TRUE, a |-> "num", val |-> v] : v \in MarketAskValues}
    \cup {[ticker |-> TRUE, a |-> "inf", val |-> 0],
          [ticker |-> TRUE, a |-> "text", val |-> 0],
          [ticker |-> TRUE, a |-> "absent", val |-> 0],
          [ticker |-> FALSE, a |-> "num", val |-> 1000]}

LoginFrames == {m \in TradingFrames : IsLogin(m) /\ ~m.cut}

MarketTrading ==
    \/ TradingConnect
    \/ TradingConnectOk
    \/ TradingAuthOk
    \/ TradingAuthPanic
    \/ \E message \in LoginFrames : TradingText(message)
    \/ TradingClose
    \/ TradingWake

MarketFeed ==
    \/ FeedConnectOk
    \/ FeedConnectErr
    \/ FeedSubscribeOk
    \/ FeedSubscribeErr
    \/ \E frame \in MarketFrames : FeedText(frame)
    \/ FeedClose
    \/ FeedError

MarketNext == Tick \/ MarketTrading \/ MarketFeed \/ Order

MarketSpec == Init /\ [][MarketNext]_vars

(* The feed and its display on their own, with asks of every kind: pairs   *)
(* of decimals that lie exactly PRINT_EPS apart, a negative one, the       *)
(* infinities and NaN.  The trading Session connects and sends its login   *)
(* request; nothing answers it.                                            *)
DisplayAskValues == {-1, 0, 1000, 1010, 10000, 10010}

DisplayFrames ==
    {[ticker |-> TRUE, a |-> "num", val |-> v] : v \in DisplayAskValues}
    \cup {[ticker |-> TRUE, a |-> cls, val |-> 0] :
             cls \in {"inf", "-inf", "nan", "text", "absent"}}
    \cup {[ticker |-> FALSE, a |-> "num", val |-> 1000]}

DisplayTrading ==
    \/ TradingConnect
    \/ TradingConnectOk
    \/ TradingAuthOk
    \/ TradingAuthPanic

DisplayFeed ==
    \/ FeedConnectOk
    \/ FeedSubscribeOk
    \/ \E frame \in DisplayFrames : FeedText(frame)
    \/ FeedClose

DisplayNext == Tick \/ DisplayTrading \/ DisplayFeed

DisplaySpec == Init /\ [][DisplayNext]_vars

(* create_order on its own: a call with arguments and a flag drawn from    *)
(* small sets, with handle_message running on the trading connection       *)
(* beside it.                                                              *)
Amounts == {0 - SO_COIN_DANH, 0, SO_COIN_DANH}

Prices == {Num(-1000), Num(0), Num(1000), NegInfinity, Infinity, NaN}

CreateOrderInit ==
    /\ proc = "running"
    /\ api_key \in {key \in ApiKeys : ~AuthenticatePanics(key)}
    /\ authenticated \in BOOLEAN
    /\ sent_time_map = EmptyMap
    /\ response_count = EmptyMap
    /\ response_times = EmptyMap
    /\ tradingPc = "recv"
    /\ tradingSleep = 0
    /\ feedPc = "recv"
    /\ share_price = [gia_mua_gate |-> NoPrice, time_gia_gate |-> FALSE,
                      orderbook_ready |-> FALSE]
    /\ last_price_print = Now
    /\ order_placed = TRUE
    /\ orderPc = "check"
    /\ orderSleep = 0
    /\ best_ask_clone \in Prices
    /\ quantity \in Amounts
    /\ req_id = ""
    /\ order_frames = <<>>
    /\ out = Quiet
    /\ mutex = NoLocks
    /\ hist = [login_sent |-> TRUE, login_200 |-> authenticated,
               spawned |-> 1, trigger_ask |-> best_ask_clone,
               retired |-> {}, lost |-> NoValue, gap |-> NoValue,
               order_acked |-> FALSE, conn_200 |-> authenticated,
               first_ack |-> NoValue]

CreateOrder ==
    \/ CreateOrderCheck
    \/ CreateOrderSentTime
    \/ CreateOrderCount
    \/ CreateOrderTimes
    \/ CreateOrderSendOk
    \/ CreateOrderSendErr

CreateOrderNext ==
    \/ Tick
    \/ CreateOrder
    \/ \E message \in OrderResponses : TradingText(message)

CreateOrderSpec == CreateOrderInit /\ [][CreateOrderNext]_vars

(* The tracker after the order has gone out: the receive loop of the       *)
(* trading Session hands order responses to handle_message, under a clock  *)
(* that keeps the age of the request up to ObserveHorizon.                 *)
ObserveInit ==
    /\ proc = "running"
    /\ api_key \in {key \in ApiKeys : ~AuthenticatePanics(key)}
    /\ authenticated = TRUE
    /\ sent_time_map = Insert(EmptyMap, ClockId, Now)
    /\ response_count = Insert(EmptyMap, ClockId, 0)
    /\ response_times = Insert(EmptyMap, ClockId, EmptyMap)
    /\ tradingPc = "recv"
    /\ tradingSleep = 0
    /\ feedPc = "recv"
    /\ share_price = [gia_mua_gate |-> Num(1000), time_gia_gate |-> TRUE,
                      orderbook_ready |-> TRUE]
    /\ last_price_print = Now
    /\ order_placed = TRUE
    /\ orderPc = "done"
    /\ orderSleep = 0
    /\ best_ask_clone = Num(1000)
    /\ quantity = SO_COIN_DANH
    /\ req_id = ClockId
    /\ order_frames = <<OrderFrame(ClockId, "BUY", "alch_usdt", SO_COIN_DANH,
                                   Num(1000), "limit", "gtc")>>
    /\ out = Quiet
    /\ mutex = NoLocks
    /\ hist = [login_sent |-> TRUE, login_200 |-> TRUE,
               spawned |-> 1, trigger_ask |-> Num(1000),
               retired |-> {}, lost |-> NoValue, gap |-> NoValue,
               order_acked |-> FALSE, conn_200 |-> TRUE,
               first_ack |-> NoValue]

ObserveNext ==
    \/ TickUpTo(ObserveHorizon)
    \/ \E message \in OrderResponses : TradingText(message)

ObserveSpec == ObserveInit /\ [][ObserveNext]_vars

\* The trading Session with its transport and the clock, on its own.
SessionNext == Tick \/ Trading

SessionSpec == Init /\ [][SessionNext]_vars

(* The Session's own steps: the runtime keeps polling start_trading_ws, a  *)
(* connection attempt and a send come back, a sleep ends.  What the        *)
(* transport delivers is left to the transport.                            *)
TradingProgress ==
    \/ TradingConnect
    \/ TradingConnectOk \/ TradingConnectErr
    \/ TradingSleepAgain
    \/ TradingWake
    \/ TradingAuthOk \/ TradingAuthErr \/ TradingAuthPanic

SessionLive == SessionSpec /\ WF_vars(Tick) /\ WF_vars(TradingProgress)

\* ------------------------------------------------------------------ claims
Maps == <<sent_time_map, response_count, response_times>>

\* a step of the trading task's receive loop (every TradingText step is one)
ReceiveStep ==
    /\ tradingPc = "recv"
    /\ UNCHANGED <<tradingVars, feedVars, orderVars>>


(* C1: the order_placed flag never goes back to false, at most one order   *)
(* task is ever spawned and at most one order frame is ever submitted.     *)
C1_TriggerFiresAtMostOnce ==
    /\ [](hist.spawned <= 1 /\ Len(order_frames) <= 1)
    /\ [][order_placed => order_placed']_vars

\* a qualifying update arrives after the order has gone out
C1_Witness ==
    /\ out.tag = "update"
    /\ AboveZero(share_price.gia_mua_gate)
    /\ authenticated
    /\ order_placed
    /\ hist.spawned = 1
    /\ Len(order_frames) = 1

(* C2: once the exchange has acknowledged the order on the order           *)
(* connection, the tracker has recorded a response for the request id or   *)
(* has retired its entry.                                                  *)
C2_OrderAcksAreTracked ==
    hist.order_acked =>
        req_id \in hist.retired \/ Get(response_count, req_id) >= 1

(* C3: a response handled for a pending request reports the time since the *)
(* request was sent and records it under the next response number; for    *)
(* the second response the summary gives both latencies and, as their      *)
(* delta, the time between the two responses (as long as the age of the    *)
(* request is one the clock keeps).  E.g. responses 5 and 47 after the     *)
(* order: latencies 5 and 47, delta 42.                                    *)
C3_LatenciesAndDelta ==
    [][(ReceiveStep /\ proc' = "running") =>
       \A m \in OrderResponses :
          (Tracked(m) /\ TradingText(m)) =>
              LET id == RequestId(m)
                  sent_ago == sent_time_map[id]
                  count == IF id \in DOMAIN response_count
                           THEN response_count[id] ELSE 0
              IN  /\ out'.tag = "response"
                  /\ out'.req_id = id
                  /\ out'.num = count + 1
                  /\ out'.latency = sent_ago
                  /\ id \in DOMAIN response_times' =>
                         response_times'[id][count + 1] = sent_ago
                  /\ (count = 0 /\ out'.retired) =>
                         out'.summary.response_1 = sent_ago
                  /\ (/\ count = 1
                      /\ id \in DOMAIN response_times
                      /\ 1 \in DOMAIN response_times[id]) =>
                         /\ out'.retired
                         /\ out'.summary.response_1 = response_times[id][1]
                         /\ out'.summary.response_2 = sent_ago
                         /\ sent_ago # Beyond =>
                                out'.summary.diff = hist.first_ack]_vars

\* responses 5 and 47 time units after the order: delta 42
C3_Witness ==
    /\ out.tag = "response"
    /\ out.num = 2
    /\ out.latency = 47
    /\ out.summary.response_1 = 5
    /\ out.summary.response_2 = 47
    /\ out.summary.diff = 42

(* C4: an order response for a request id whose entry has been retired     *)
(* changes none of the three maps, reports no latency, and handle_message  *)
(* returns normally.                                                       *)
C4_LateResponseIsNoOp ==
    [][ReceiveStep =>
       \A m \in OrderResponses :
          (RequestId(m) \in hist.retired /\ TradingText(m)) =>
              /\ UNCHANGED Maps
              /\ RequestId(m) \notin DOMAIN sent_time_map'
              /\ out'.tag # "response"
              /\ proc' = "running"]_vars

(* C5: after a response is handled for a pending request, its entry is     *)
(* gone from all three maps exactly if this was at least its second        *)
(* response or the status is "201" or "400"; otherwise it is in all three  *)
(* with its count one higher.                                              *)
C5_RetirementPolicy ==
    [][(ReceiveStep /\ proc' = "running") =>
       \A m \in OrderResponses :
          (Tracked(m) /\ TradingText(m)) =>
              LET id == RequestId(m)
                  status == Field(m, "status", "unknown")
                  count == IF id \in DOMAIN response_count
                           THEN response_count[id] ELSE 0
                  final == count + 1 >= 2 \/ status \in {"201", "400"}
              IN  IF final
                  THEN /\ id \notin DOMAIN sent_time_map'
                       /\ id \notin DOMAIN response_count'
                       /\ id \notin DOMAIN response_times'
                  ELSE /\ id \in DOMAIN sent_time_map'
                       /\ id \in DOMAIN response_count'
                       /\ id \in DOMAIN response_times'
                       /\ response_count'[id] = count + 1]_vars

\* a first response with status "400" has retired the entry
C5_Witness ==
    /\ out.tag = "response"
    /\ out.num = 1
    /\ out.status = "400"
    /\ out.req_id \in hist.retired
    /\ out.req_id \notin DOMAIN sent_time_map

(* C6: the authenticated flag is true only after the Session has sent a    *)
(* spot.login request and handled a spot.login/api response with status    *)
(* "200", and only the handling of such a response changes the flag.       *)
C6_AuthenticatedOnlyByLogin200 ==
    /\ [](authenticated => hist.login_sent /\ hist.login_200)
    /\ [][authenticated' # authenticated =>
              \E m \in TradingFrames : IsLogin200(m) /\ TradingText(m)]_vars

\* the login response "200" has just set the flag
C6_Witness ==
    /\ authenticated
    /\ out.tag = "auth_ok"
    /\ hist.login_sent
    /\ tradingPc = "recv"

(* C7: whenever a trading connection attempt has ended (connect failure,   *)
(* failed send of the login frame, transport error, close frame), the      *)
(* Session starts another attempt.                                         *)
C7_SessionKeepsReconnecting ==
    [](hist.lost # NoValue => <>(tradingPc = "connecting"))

\* an attempt is under way after an earlier one ended
C7_Witness == tradingPc = "connecting" /\ hist.gap # NoValue

(* C8: every connection attempt after the first starts exactly             *)
(* RECONNECT_DELAY after the attempt before it ended.                      *)
C8_ReconnectAfterFixedDelay ==
    hist.gap # NoValue => hist.gap = RECONNECT_DELAY

(* C9: the flag reports authenticated only while the connection that is    *)
(* open has had a login response "200".                                    *)
C9_NotAuthenticatedWhileDown == authenticated => hist.conn_200

(* C10: after a login response with a status other than "200" has been     *)
(* handled, the flag is false.                                             *)
C10_RejectedLoginLeavesFlagFalse == out.tag = "auth_failed" => ~authenticated

(* C11: a step spawns the order task or changes order_placed only if it    *)
(* is the handling of a book-ticker update at which order_placed is false, *)
(* the update's ask is > 0 and the authenticated flag is true; such an     *)
(* update sets the flag and spawns one task, and an update at which one of *)
(* the three fails spawns nothing and leaves order_placed and the order    *)
(* task as they were.                                                      *)
C11_TriggerNeedsAllThree ==
    /\ [][\A frame \in FeedFrames :
             FeedText(frame) =>
                 IF /\ frame.ticker
                    /\ ~order_placed
                    /\ AboveZero(BestAsk(frame))
                    /\ authenticated
                 THEN /\ order_placed'
                      /\ hist'.spawned = hist.spawned + 1
                      /\ orderPc' = "sleep"
                 ELSE /\ order_placed' = order_placed
                      /\ hist'.spawned = hist.spawned
                      /\ UNCHANGED orderVars]_vars
    /\ [][(hist'.spawned # hist.spawned \/ order_placed' # order_placed) =>
              \E frame \in FeedFrames : FeedText(frame)]_vars

\* an update with ask 0 has been handled while logged in: nothing spawned
C11_Witness ==
    /\ out.tag = "update"
    /\ share_price.gia_mua_gate = Num(0)
    /\ authenticated
    /\ ~order_placed
    /\ hist.spawned = 0
    /\ orderPc = "idle"

(* C12: no event ends the process while the spawned order task is still in *)
(* its settling delay: the task always gets to its connection attempt.     *)
C12_OrderTaskIsNotCancelled ==
    (order_placed /\ orderPc = "sleep") => proc = "running"

(* C13: every order frame submitted is a spot.order_place request to buy,  *)
(* of type limit, good till cancelled, for the fixed amount SO_COIN_DANH,  *)
(* at the ask of the update that fired the trigger, whatever the shared    *)
(* price sample has become since.                                          *)
C13_OrderFrameFields ==
    \A i \in 1..Len(order_frames) :
        /\ order_frames[i].channel = "spot.order_place"
        /\ order_frames[i].side = "buy"
        /\ order_frames[i].type = "limit"
        /\ order_frames[i].time_in_force = "gtc"
        /\ order_frames[i].amount = SO_COIN_DANH
        /\ order_frames[i].price = hist.trigger_ask
        /\ AboveZero(order_frames[i].price)

\* the order went out at 0.1 after the shared price had moved to 0.1004
C13_Witness ==
    /\ Len(order_frames) = 1
    /\ order_frames[1].price = Num(1000)
    /\ share_price.gia_mua_gate = Num(1004)
    /\ orderPc = "done"

(* C14: a text frame that is not valid JSON makes handle_message return an *)
(* error, which the receive loop logs; the authenticated flag and the      *)
(* three maps are unchanged and the Session stays in its receive loop on   *)
(* the same connection, ready for the next frame.                          *)
C14_GarbledFrameIsDropped ==
    [][(ReceiveStep /\ TradingText(Garbled)) =>
          /\ out'.tag = "error"
          /\ UNCHANGED acctVars
          /\ tradingPc' = "recv"
          /\ proc' = "running"
          /\ hist'.conn_200 = hist.conn_200]_vars

\* a garbled frame has been dropped while logged in with a request pending
C14_Witness ==
    /\ out.tag = "error"
    /\ tradingPc = "recv"
    /\ proc = "running"
    /\ authenticated
    /\ req_id \in DOMAIN sent_time_map
    /\ Get(response_count, req_id) = 1

(* C15: create_order called while the authenticated flag is false, or with *)
(* an amount <= 0, or with a price <= 0, prints its refusal and returns    *)
(* Ok: it inserts nothing into the three maps and sends no frame.          *)
C15_RejectedOrderIsNoOp ==
    /\ [][(/\ CreateOrderCheck
           /\ (~authenticated \/ quantity <= 0 \/ ZeroOrBelow(best_ask_clone))) =>
              /\ out'.tag = "cannot_place"
              /\ orderPc' = "done"
              /\ UNCHANGED <<acctVars, req_id, order_frames>>]_vars
    /\ []((~authenticated \/ quantity <= 0 \/ ZeroOrBelow(best_ask_clone)) =>
              /\ sent_time_map = EmptyMap
              /\ response_count = EmptyMap
              /\ response_times = EmptyMap
              /\ order_frames = <<>>)

\* a call with amount 0 at a good price, logged in, has been refused
C15_Witness ==
    /\ orderPc = "done"
    /\ out.tag = "cannot_place"
    /\ authenticated
    /\ quantity = 0
    /\ best_ask_clone = Num(1000)
    /\ order_frames = <<>>

(* C16: a book-ticker update for the subscribed pair whose best-ask field  *)
(* is missing or does not parse as a decimal leaves the shared price       *)
(* sample (gia_mua_gate, time_gia_gate, orderbook_ready) as it was.        *)
C16_UnparsedAskIsIgnored ==
    [][\A frame \in FeedFrames :
          (frame.ticker /\ frame.a # "num" /\ FeedText(frame)) =>
              UNCHANGED share_price]_vars

(* C17: a count or a latency that handle_message has recorded for a        *)
(* request id is never reset or overwritten while the id stays tracked,    *)
(* however create_order's inserts interleave with handle_message.          *)
C17_RecordedAcksAreKept ==
    [][/\ \A id \in DOMAIN response_count \cap DOMAIN response_count' :
             response_count'[id] >= response_count[id]
       /\ \A id \in DOMAIN response_times \cap DOMAIN response_times' :
             \A k \in DOMAIN response_times[id] :
                 /\ k \in DOMAIN response_times'[id]
                 /\ response_times'[id][k] = response_times[id][k]]_vars

(* C18: handle_message leaves the authenticated flag and the three maps    *)
(* unchanged for a frame of channel spot.ping or spot.pong, for a frame    *)
(* whose channel/event pair it does not know, and for a                    *)
(* spot.order_place/api response whose request id is empty or has no       *)
(* pending entry.                                                          *)
C18_FramesWithoutEffect ==
    [][ReceiveStep =>
       \A m \in TradingFrames :
          LET channel == Field(m, "channel", "")
              event == Field(m, "event", "")
              ping_pong == channel \in {"spot.ping", "spot.pong"}
              login == channel = "spot.login" /\ event = "api"
              order == channel = "spot.order_place" /\ event = "api"
              untracked == \/ Field(m, "request_id", "") = ""
                           \/ Field(m, "request_id", "")
                                  \notin DOMAIN sent_time_map
          IN  (/\ m.json
               /\ \/ ping_pong
                  \/ ~login /\ ~order
                  \/ order /\ untracked
               /\ TradingText(m)) =>
                  /\ UNCHANGED acctVars
                  /\ out'.tag \notin {"response", "auth_ok"}]_vars

\* a response for an id that is not pending, handled while another is
C18_Witness ==
    /\ out.tag = "order_untracked"
    /\ authenticated
    /\ req_id \in DOMAIN sent_time_map
    /\ "r2" \notin DOMAIN sent_time_map
    /\ Get(response_count, req_id) = 0

\* two decimal asks no more than PRINT_EPS apart
Near(a, b) == a.cls = "num" /\ b.cls = "num" /\ Abs(a.val - b.val) <= PRINT_EPS

(* C19: an update after the first whose ask is within PRINT_EPS of the     *)
(* previous update's ask and which arrives no later than PRINT_WINDOW      *)
(* after the last display is not displayed and leaves the time of the last *)
(* display as it was; so a run of such updates adds no display to the one  *)
(* that opened the window, however many they are.                          *)
C19_ThrottledDisplay ==
    [][\A frame \in DisplayFrames :
          (/\ frame.ticker
           /\ Near(BestAsk(frame), share_price.gia_mua_gate)
           /\ DurationSince(Now, last_price_print) <= PRINT_WINDOW
           /\ FeedText(frame)) =>
              /\ out'.tag = "update"
              /\ ~out'.printed
              /\ last_price_print' = last_price_print]_vars

\* the ages the time of the last display can have
DisplayAges == 0..(PRINT_WINDOW + 1)

(* C20: when the feed handles a book-ticker update, the trigger fires      *)
(* exactly if it would fire on the same update, with the same flag and     *)
(* the same price sample, in a run whose last display lies at any other    *)
(* time; the price sample and order_placed it leaves are the same in both, *)
(* whether or not either run displays the update.                          *)
C20_TriggerIgnoresThrottling ==
    [][\A frame \in MarketFrames :
          (frame.ticker /\ FeedText(frame)) =>
              \A age \in DisplayAges :
                 LET other == BookTickerUpdate(share_price, age, order_placed,
                                               authenticated, frame, Now)
                 IN  /\ (hist'.spawned = hist.spawned + 1) = other.fire
                     /\ (hist'.spawned = hist.spawned) = ~other.fire
                     /\ order_placed' = other.order_placed
                     /\ share_price' = other.share_price]_vars

\* the trigger has fired on an update that was not displayed
C20_Witness ==
    /\ out.tag = "update"
    /\ ~out.printed
    /\ order_placed
    /\ hist.spawned = 1
    /\ orderPc = "sleep"
    /\ orderSleep = SETTLE_DELAY

C22_ValidationNeverSkips ==
    /\ [][authenticated => authenticated']_vars
    /\ [](orderPc # "idle" =>
              /\ AboveZero(best_ask_clone)
              /\ quantity = SO_COIN_DANH
              /\ quantity > 0)
    /\ [](orderPc = "check" =>
              ~OrderRejected(authenticated, quantity, best_ask_clone))
    /\ [][CreateOrderCheck => (orderPc' = "sent" /\ out'.tag = "none")]_vars
    /\ [](out.tag # "cannot_place")

\* the validation has passed while the trading connection was down
C22_Witness ==
    /\ orderPc = "sent"
    /\ authenticated
    /\ ~hist.conn_200
    /\ tradingPc = "sleep"

\* task t is inside Mutex::lock, waiting for a mutex that is held
Blocked(t) ==
    /\ mutex.todo[t] # <<>>
    /\ Head(mutex.todo[t]).op = "lock"
    /\ mutex.owner[Head(mutex.todo[t]).m] # "free"

(* C23: the locking is free of deadlock: a task that waits for a mutex     *)
(* waits for a task that is not itself waiting, so in no reachable state   *)
(* is every task blocked, and no task waits for a mutex it holds.          *)
C23_NoDeadlock ==
    /\ \A t \in Tasks :
          Blocked(t) => ~Blocked(mutex.owner[Head(mutex.todo[t]).m])
    /\ \E t \in Tasks : ~Blocked(t)

\* create_order waits for response_count while handle_message holds all
\* three maps and the feed waits for the authenticated cell
C23_Witness ==
    /\ Blocked("order")
    /\ mutex.owner["sent_time_map"] = "session"
    /\ mutex.owner["response_count"] = "session"
    /\ mutex.owner["response_times"] = "session"
    /\ mutex.owner["share_price"] = "feed"

=============================================================================
